---- MODULE Spec2Model ----
(***************************************************************************)
(* AI-Study-Companion: upload naming, metadata extraction, indexing,       *)
(* index-status probe and two-tier retrieval, modelled from src/app.py and *)
(* src/indexer-service/indexer.py.                                         *)
(*                                                                         *)
(* Strings are sequences of one-character strings, so that formatting,     *)
(* splitting and replacing are computed and not assumed.                   *)
(***************************************************************************)
EXTENDS Integers, Sequences, FiniteSets, TLC

VARIABLES cfg, blobs, served, up, an, ix, ex

vars == <<cfg, blobs, served, up, an, ix, ex>>

----------------------------------------------------------------------------
(* Bounds *)

\* number of upload requests in flight at the same time
NumUploads == 2
\* number of upload requests received in one behaviour
MaxServed == 2
\* highest counter suffix among the keys already in the bucket at start
MaxPre == 2
\* number of results one search response carries at most
MaxHits == 2
\* number of '_'-separated tokens of an extracted filename at most
MaxTokens == 3

----------------------------------------------------------------------------
(* Python str helpers *)

Digits == <<"0", "1", "2", "3", "4", "5", "6", "7", "8", "9">>
UpperChars == <<"A", "B", "C", "D", "E", "F", "G", "H", "I", "J", "K", "L", "M",
                "N", "O", "P", "Q", "R", "S", "T", "U", "V", "W", "X", "Y", "Z">>
LowerChars == <<"a", "b", "c", "d", "e", "f", "g", "h", "i", "j", "k", "l", "m",
                "n", "o", "p", "q", "r", "s", "t", "u", "v", "w", "x", "y", "z">>

IsDigit(c) == \E i \in 1..10 : Digits[i] = c

\* str.lower() on one character
LowerChar(c) ==
  IF \E i \in 1..26 : UpperChars[i] = c
  THEN LowerChars[CHOOSE i \in 1..26 : UpperChars[i] = c]
  ELSE c

\* str.lower()
Lower(s) == [i \in 1..Len(s) |-> LowerChar(s[i])]

\* str.startswith / str.endswith
StartsWith(s, pre) ==
  /\ Len(pre) <= Len(s)
  /\ SubSeq(s, 1, Len(pre)) = pre

EndsWith(s, suf) ==
  /\ Len(suf) <= Len(s)
  /\ SubSeq(s, Len(s) - Len(suf) + 1, Len(s)) = suf

\* str(int) for n >= 0
RECURSIVE Dec(_)
Dec(n) == IF n < 10 THEN <<Digits[n + 1]>>
          ELSE Dec(n \div 10) \o <<Digits[(n % 10) + 1]>>

\* str.replace(old, new): leftmost, non-overlapping occurrences
RECURSIVE Replace(_, _, _)
Replace(s, old, new) ==
  IF s = <<>> THEN <<>>
  ELSE IF StartsWith(s, old)
       THEN new \o Replace(SubSeq(s, Len(old) + 1, Len(s)), old, new)
       ELSE <<s[1]>> \o Replace(Tail(s), old, new)

\* str.split(sep) for a one-character sep: always at least one token
RECURSIVE Split(_, _)
Split(s, sep) ==
  IF \E i \in 1..Len(s) : s[i] = sep
  THEN LET i == CHOOSE j \in 1..Len(s) :
                   /\ s[j] = sep
                   /\ \A k \in 1..(j - 1) : s[k] # sep
       IN <<SubSeq(s, 1, i - 1)>> \o Split(SubSeq(s, i + 1, Len(s)), sep)
  ELSE <<s>>

\* s.rsplit(sep, 1)[0]: what stands before the last sep, or s without one
RSplitHead(s, sep) ==
  IF \E i \in 1..Len(s) : s[i] = sep
  THEN LET i == CHOOSE j \in 1..Len(s) :
                   /\ s[j] = sep
                   /\ \A k \in (j + 1)..Len(s) : s[k] # sep
       IN SubSeq(s, 1, i - 1)
  ELSE s

\* s.split(sep)[-1]
SplitLast(s, sep) == LET t == Split(s, sep) IN t[Len(t)]

----------------------------------------------------------------------------
(* Configuration (src/app.py:11-15) *)

GCS_BUCKET_NAME == <<"ai-study-companion-bucket">>
MAX_FILE_SIZE == 100 * 1024 * 1024
REGION == <<"europe-west1">>

PdfExt == <<".", "p", "d", "f">>

\* os.getenv("GCP_PROJECT_ID"), os.getenv("DATA_STORE_ID"): unset is the empty string;
\* DATA_STORE_ID is a short id or a fully-qualified resource path
ProjectSet == <<"proj">>
DsShort == <<"ds1">>
DsFull == <<"projects", "/", "proj", "/", "locations", "/", "europe-west1", "/",
            "collections", "/", "default_collection", "/", "dataStores", "/", "ds1">>

\* DATA_STORE_LOCATION is read by the indexer service only (indexer.py:40)
Global == <<"global">>

Configs == { [PROJECT_ID |-> ProjectSet, DATA_STORE_ID |-> DsShort, DATA_STORE_LOCATION |-> Global],
             [PROJECT_ID |-> ProjectSet, DATA_STORE_ID |-> DsFull,  DATA_STORE_LOCATION |-> Global],
             [PROJECT_ID |-> <<>>,       DATA_STORE_ID |-> DsShort, DATA_STORE_LOCATION |-> Global],
             [PROJECT_ID |-> ProjectSet, DATA_STORE_ID |-> <<>>,    DATA_STORE_LOCATION |-> Global] }

\* the deployments of the indexer service: location left at its default or set to the region
IndexConfigs == { [PROJECT_ID |-> ProjectSet, DATA_STORE_ID |-> DsShort, DATA_STORE_LOCATION |-> Global],
                  [PROJECT_ID |-> ProjectSet, DATA_STORE_ID |-> DsShort, DATA_STORE_LOCATION |-> REGION],
                  [PROJECT_ID |-> ProjectSet, DATA_STORE_ID |-> DsFull,  DATA_STORE_LOCATION |-> REGION],
                  [PROJECT_ID |-> ProjectSet, DATA_STORE_ID |-> <<>>,    DATA_STORE_LOCATION |-> REGION] }

\* "not PROJECT_ID or not DATA_STORE_ID"
Misconfigured(c) == c.PROJECT_ID = <<>> \/ c.DATA_STORE_ID = <<>>

----------------------------------------------------------------------------
(* Inputs *)

Procs == 1..NumUploads

\* the request handler whose requests the upload specification follows one after the other
Handler == 1

\* datetime.now().strftime("%Y-%m-%d")
Date1 == <<"2", "0", "2", "6", "-", "0", "2", "-", "0", "1">>
Date2 == <<"2", "0", "2", "6", "-", "0", "2", "-", "0", "2">>
DateStamps == {Date1, Date2}

\* int(datetime.now().timestamp()): two uploads may fall into the same second
Epochs == {1700000000, 1700000001}

\* file.filename of the multipart request
FileNames == { <<"a", ".", "p", "d", "f">>,
               <<"a", "(", "1", ")", ".", "p", "d", "f">>,
               <<"a", ".", "P", "D", "F">>,
               <<"a", ".", "t", "x", "t">>,
               <<>> }

ContentTypes == {"application/pdf", "application/octet-stream", "text/plain"}

\* len(file_content)
Sizes == {1, MAX_FILE_SIZE, MAX_FILE_SIZE + 1}

----------------------------------------------------------------------------
(* NameAllocator: generate_unique_filename (src/app.py:260-286) *)

BaseFilename(timestamp, original_name) ==
  timestamp \o <<"_">> \o original_name \o PdfExt

CounterFilename(timestamp, original_name, counter) ==
  timestamp \o <<"_">> \o original_name \o <<"(">> \o Dec(counter) \o <<")">> \o PdfExt

FallbackFilename(timestamp, original_name, epoch) ==
  timestamp \o <<"_">> \o original_name \o <<"_">> \o Dec(epoch) \o PdfExt

\* bucket.blob(name).exists()
Exists(store, name) == name \in store

FirstCounter == 1

NextCounterSkipping(counter) == counter + 2

NextCounter(counter) == counter + 1

\* keys in the bucket before any modelled upload: all written for file "a" on Date1
PreKeys == {BaseFilename(Date1, <<"a">>)}
             \cup {CounterFilename(Date1, <<"a">>, k) : k \in 1..MaxPre}

NoResp == [status |-> 0, success |-> FALSE, filename |-> <<>>, message |-> "", error |-> ""]

IdleUpload ==
  [pc |-> "idle", ts |-> <<>>, name |-> <<>>, counter |-> 0, probes |-> <<>>,
   key |-> <<>>, path |-> "none", raisedAt |-> "none",
   atCall |-> {}, atRet |-> {}, written |-> FALSE, indexErr |-> FALSE, resp |-> NoResp]

\* return new_filename / return base_filename: the caller goes on to the write
GenReturn(u, key, path, store) ==
  [u EXCEPT !.pc = "write", !.key = key, !.path = path, !.atRet = store]

\* the exception leaves generate_unique_filename and reaches upload_pdf's handler (209-211)
GenExceptPropagates(u, epoch, store) ==
  [u EXCEPT !.pc = "done",
            !.resp = [status |-> 500, success |-> FALSE, filename |-> <<>>, message |-> "",
                      error |-> "Interner Serverfehler beim Upload"]]

\* except Exception (283-286): log, return the epoch-suffixed name
GenExcept(u, epoch, store) ==
  GenReturn(u, FallbackFilename(u.ts, u.name, epoch), "epoch", store)

----------------------------------------------------------------------------
(* MetadataExtractor: extract_document_metadata (src/app.py:213-258) *)

\* re.match(r'\d{4}-\d{2}-\d{2}', t): a match at the start of t
MatchDate(t) ==
  /\ Len(t) >= 10
  /\ \A i \in {1, 2, 3, 4, 6, 7, 9, 10} : IsDigit(t[i])
  /\ t[5] = "-"
  /\ t[8] = "-"

\* re.match(r'v\d+\.\d+', t, re.IGNORECASE): a match at the start of t
MatchVersion(t) ==
  /\ Len(t) >= 4
  /\ t[1] \in {"v", "V"}
  /\ \E i \in 2..(Len(t) - 2) :
       /\ \A j \in 2..i : IsDigit(t[j])
       /\ t[i + 1] = "."
       /\ IsDigit(t[i + 2])

Kapitel == <<"K", "a", "p", "i", "t", "e", "l">>
kapitel == <<"k", "a", "p", "i", "t", "e", "l">>

\* line 238
IsChapterPart(part) == StartsWith(part, Kapitel) \/ StartsWith(part, kapitel)

\* lines 237-243: the first chapter part gives chapter and the part after it, then break
ChapterIndex(parts) ==
  IF \E i \in 1..Len(parts) : IsChapterPart(parts[i])
  THEN CHOOSE i \in 1..Len(parts) :
         /\ IsChapterPart(parts[i])
         /\ \A j \in 1..(i - 1) : ~IsChapterPart(parts[j])
  ELSE 0

TopicAfterChapter(parts) ==
  LET i == ChapterIndex(parts)
  IN IF i > 0 /\ i + 1 <= Len(parts) THEN parts[i + 1] ELSE <<>>

\* lines 246-247, with the filename itself for a single part
FallbackTopicOrName(topic, parts) ==
  IF topic = <<>> /\ Len(parts) > 1 THEN parts[2]
  ELSE IF topic = <<>> THEN parts[1]
  ELSE topic

\* lines 246-247: "if not metadata['topic'] and len(parts) > 1"
FallbackTopic(topic, parts) ==
  IF topic = <<>> /\ Len(parts) > 1 THEN parts[2] ELSE topic

\* lines 250-253
VersionOf(parts) ==
  IF \E i \in 1..Len(parts) : MatchVersion(parts[i])
  THEN parts[CHOOSE i \in 1..Len(parts) :
               /\ MatchVersion(parts[i])
               /\ \A j \in 1..(i - 1) : ~MatchVersion(parts[j])]
  ELSE <<>>

\* line 229-230
PartsOf(filename) == Split(Replace(filename, PdfExt, <<>>), "_")

extract_document_metadata(filename) ==
  LET parts == PartsOf(filename)
      i == ChapterIndex(parts)
  IN [filename |-> filename,
      chapter  |-> IF i > 0 THEN parts[i] ELSE <<>>,
      topic    |-> FallbackTopic(TopicAfterChapter(parts), parts),
      date     |-> IF MatchDate(parts[1]) THEN parts[1] ELSE <<>>,
      version  |-> VersionOf(parts)]

\* lines 219-225: the record before anything is found
NoMetadata(filename) ==
  [filename |-> filename, chapter |-> <<>>, topic |-> <<>>, date |-> <<>>, version |-> <<>>]

IdleExtract == [pc |-> "idle", filename |-> <<>>, metadata |-> NoMetadata(<<>>)]

\* tokens of the filenames handed to the extractor
RandomFile == <<"r", "a", "n", "d", "o", "m", "f", "i", "l", "e">>
Tokens ==
  { Date1,
    Kapitel \o <<"3">>,
    kapitel \o <<"1">>,
    <<"K", "A", "P", "I", "T", "E", "L", "2">>,
    <<"N", "o", "t", "e", "s">>,
    RandomFile,
    <<"v", "2", ".", "7">>,
    <<>> }

RECURSIVE JoinTokens(_)
JoinTokens(toks) ==
  IF Len(toks) = 1 THEN toks[1]
  ELSE toks[1] \o <<"_">> \o JoinTokens(Tail(toks))

\* keys of one to MaxTokens tokens, with or without the extension
ExtractInputs ==
  {JoinTokens(toks) \o e : toks \in UNION {[1..n -> Tokens] : n \in 1..MaxTokens},
                           e \in {PdfExt, <<>>}}

\* one call of extract_document_metadata
Extract ==
  /\ ex.pc = "call"
  /\ ex' = [ex EXCEPT !.pc = "done", !.metadata = extract_document_metadata(ex.filename)]
  /\ UNCHANGED <<cfg, blobs, served, up, an, ix>>

----------------------------------------------------------------------------
(* upload_pdf (src/app.py:150-211) *)

ErrorResp(status, error) ==
  [status |-> status, success |-> FALSE, filename |-> <<>>, message |-> "", error |-> error]

MsgIndexingStarted == "Datei erfolgreich hochgeladen und Indexierung gestartet."
MsgIndexingFailed == "Datei hochgeladen, aber Indexierung fehlgeschlagen"

UploadOk(key, message) ==
  [status |-> 200, success |-> TRUE, filename |-> key, message |-> message, error |-> ""]

\* lines 156-185: the checks of the request, then the call of generate_unique_filename
UploadValidate(u, c, hasFile, fname, ctype, size, date, store) ==
  IF Misconfigured(c)
  THEN [u EXCEPT !.pc = "done", !.resp = ErrorResp(500, "Server misconfiguration")]
  ELSE IF ~hasFile
  THEN [u EXCEPT !.pc = "done", !.resp = ErrorResp(400, "Keine Datei in der Anfrage gefunden.")]
  ELSE IF fname = <<>>
  THEN [u EXCEPT !.pc = "done", !.resp = ErrorResp(400, "Keine Datei ausgewaehlt.")]
  ELSE IF ~EndsWith(Lower(fname), PdfExt)
  THEN [u EXCEPT !.pc = "done", !.resp = ErrorResp(400, "Nur PDF-Dateien sind erlaubt.")]
  ELSE IF ctype \notin {"application/pdf", "application/octet-stream"}
  THEN [u EXCEPT !.pc = "done", !.resp = ErrorResp(400, "Ungueltiger Dateityp.")]
  ELSE IF size > MAX_FILE_SIZE
  THEN [u EXCEPT !.pc = "done", !.resp = ErrorResp(400, "Datei zu gross.")]
  ELSE [u EXCEPT !.pc = "alloc", !.ts = date, !.name = RSplitHead(fname, "."),
                 !.atCall = store]

UploadReceive(p) ==
  /\ up[p].pc \in {"idle", "done"}
  /\ served < MaxServed
  /\ served' = served + 1
  /\ \E hasFile \in BOOLEAN, fname \in FileNames, ctype \in ContentTypes,
        size \in Sizes, date \in DateStamps :
       up' = [up EXCEPT ![p] =
                UploadValidate(IdleUpload, cfg, hasFile, fname, ctype, size, date, DOMAIN blobs)]
  /\ UNCHANGED <<cfg, blobs, an, ix, ex>>

\* lines 266-273: client creation and the probe of the base name; either may raise
GenProbeBase(p) ==
  /\ up[p].pc = "alloc"
  /\ LET u == up[p]
         store == DOMAIN blobs
         base == BaseFilename(u.ts, u.name)
     IN \/ \E epoch \in Epochs :
             up' = [up EXCEPT ![p] = GenExcept([u EXCEPT !.raisedAt = "base"], epoch, store)]
        \/ up' = [up EXCEPT ![p] =
                    IF ~Exists(store, base)
                    THEN GenReturn([u EXCEPT !.probes = <<0>>], base, "base", store)
                    ELSE [u EXCEPT !.pc = "probe", !.probes = <<0>>,
                                   !.counter = FirstCounter]]
  /\ UNCHANGED <<cfg, blobs, served, an, ix, ex>>

\* a loop that probes the same name again instead of the next one
GenProbeCounterSameName(p) ==
  /\ up[p].pc = "probe"
  /\ LET u == up[p]
         store == DOMAIN blobs
         new_filename == CounterFilename(u.ts, u.name, u.counter)
         probed == [u EXCEPT !.probes = Append(@, u.counter)]
     IN \/ \E epoch \in Epochs :
             up' = [up EXCEPT ![p] = GenExcept([u EXCEPT !.raisedAt = "counter"], epoch, store)]
        \/ up' = [up EXCEPT ![p] =
                    IF ~Exists(store, new_filename)
                    THEN GenReturn(probed, new_filename, "counter", store)
                    ELSE probed]
  /\ UNCHANGED <<cfg, blobs, served, an, ix, ex>>

\* lines 277-281: one turn of the while loop; the probe may raise
GenProbeCounter(p) ==
  /\ up[p].pc = "probe"
  /\ LET u == up[p]
         store == DOMAIN blobs
         new_filename == CounterFilename(u.ts, u.name, u.counter)
         probed == [u EXCEPT !.probes = Append(@, u.counter)]
     IN \/ \E epoch \in Epochs :
             up' = [up EXCEPT ![p] = GenExcept([u EXCEPT !.raisedAt = "counter"], epoch, store)]
        \/ up' = [up EXCEPT ![p] =
                    IF ~Exists(store, new_filename)
                    THEN GenReturn(probed, new_filename, "counter", store)
                    ELSE [probed EXCEPT !.counter = NextCounter(u.counter)]]
  /\ UNCHANGED <<cfg, blobs, served, an, ix, ex>>

\* blob.upload_from_string: creates the object or replaces the one under the key
Put(store, key, owner) ==
  [k \in (DOMAIN store) \cup {key} |-> IF k = key THEN owner ELSE store[k]]

\* lines 188-191, and 209-211 when the client or the write raises
StoreWrite(p) ==
  /\ up[p].pc = "write"
  /\ \/ /\ blobs' = Put(blobs, up[p].key, p)
        /\ up' = [up EXCEPT ![p].pc = "index", ![p].written = TRUE]
     \/ /\ up' = [up EXCEPT ![p].pc = "done",
                            ![p].resp = ErrorResp(500, "Interner Serverfehler beim Upload")]
        /\ UNCHANGED blobs
  /\ UNCHANGED <<cfg, served, an, ix, ex>>

----------------------------------------------------------------------------
(* Resource names and the document index service *)

Slash == <<"/">>

\* DATA_STORE_ID.split('/')[-1] if '/' in DATA_STORE_ID else DATA_STORE_ID
DatastoreId(ds) ==
  IF \E i \in 1..Len(ds) : ds[i] = "/" THEN SplitLast(ds, "/") ELSE ds

\* app.py:91 (check_indexing_status) and the same prefix in 301 and 436
DataStorePath(c) ==
  <<"projects">> \o Slash \o c.PROJECT_ID \o Slash \o <<"locations">> \o Slash \o REGION
    \o Slash \o <<"collections">> \o Slash \o <<"default_collection">>
    \o Slash \o <<"dataStores">> \o Slash \o DatastoreId(c.DATA_STORE_ID)

\* app.py:436 (trigger_indexing)
AppBranchParent(c) ==
  DataStorePath(c) \o Slash \o <<"branches">> \o Slash \o <<"default_branch">>

\* indexer.py:60-65: client.branch_path(project, location, data_store, branch)
IndexerBranchParent(c) ==
  <<"projects">> \o Slash \o c.PROJECT_ID \o Slash \o <<"locations">> \o Slash
    \o c.DATA_STORE_LOCATION \o Slash \o <<"dataStores">> \o Slash \o c.DATA_STORE_ID
    \o Slash \o <<"branches">> \o Slash \o <<"default_branch">>

\* f"gs://{bucket}/{name}" (app.py:443, indexer.py:35)
GcsUri(bucket, name) == <<"g", "s", ":", "/", "/">> \o bucket \o Slash \o name

HexChars == <<"0", "1", "2", "3", "4", "5", "6", "7", "8", "9", "a", "b", "c", "d", "e", "f">>

AllChars == Digits \o LowerChars \o UpperChars \o <<"_", "-", ".", "(", ")", "/", ":">>
CharCode(c) ==
  IF \E i \in 1..Len(AllChars) : AllChars[i] = c
  THEN CHOOSE i \in 1..Len(AllChars) : AllChars[i] = c
  ELSE 0

RECURSIVE Fold(_, _)
Fold(s, acc) ==
  IF s = <<>> THEN acc ELSE Fold(Tail(s), (acc * 31 + CharCode(s[1]) + 7) % 65521)

\* hexdigest() gives 32 lowercase hex digits that depend on the bytes of the name only.
\* MD5 itself is not computed: the digest is a stand-in with that interface.
HexDigestLen == 32
HexDigest(s) ==
  LET h == Fold(s, Len(s))
  IN [i \in 1..HexDigestLen |-> HexChars[((h * i + (h \div 16) + i) % 16) + 1]]

\* a resource name split at '/', as the service reads it
Segments(name) == Split(name, "/")

\* projects/P/locations/L[/collections/C]/dataStores/D/branches/B as the service reads it;
\* the collection may be left out and is then default_collection
ParseBranch(segs) ==
  IF /\ Len(segs) = 10
     /\ segs[1] = <<"projects">> /\ segs[3] = <<"locations">>
     /\ segs[5] = <<"collections">> /\ segs[7] = <<"dataStores">>
     /\ segs[9] = <<"branches">>
  THEN [ok |-> TRUE, project |-> segs[2], location |-> segs[4], collection |-> segs[6],
        datastore |-> segs[8], branch |-> segs[10]]
  ELSE IF /\ Len(segs) = 8
          /\ segs[1] = <<"projects">> /\ segs[3] = <<"locations">>
          /\ segs[5] = <<"dataStores">> /\ segs[7] = <<"branches">>
  THEN [ok |-> TRUE, project |-> segs[2], location |-> segs[4],
        collection |-> <<"default_collection">>,
        datastore |-> segs[6], branch |-> segs[8]]
  ELSE [ok |-> FALSE, project |-> <<>>, location |-> <<>>, collection |-> <<>>,
        datastore |-> <<>>, branch |-> <<>>]

\* {branch}/documents/{id}
ParseDocName(name) ==
  LET segs == Segments(name)
      n == Len(segs)
  IN IF n >= 3 /\ segs[n - 1] = <<"documents">>
     THEN [branch |-> ParseBranch(SubSeq(segs, 1, n - 2)), id |-> segs[n]]
     ELSE [branch |-> ParseBranch(<<>>), id |-> <<>>]

----------------------------------------------------------------------------
(* IndexingRequester: trigger_indexing (src/app.py:412-470) *)

NoProbe ==
  [status |-> 0, indexed |-> FALSE, document_id |-> <<>>, filename |-> <<>>,
   ingested |-> FALSE, raised |-> FALSE]

IdleIndex == [ops |-> {}, docs |-> {}, indexerResp |-> 0, probe |-> NoProbe]

\* lines 442-452: the stored object by reference; the request names no document id
GcsImport(c, gcs_path) ==
  [parent |-> AppBranchParent(c), source |-> "gcs",
   uri |-> GcsUri(GCS_BUCKET_NAME, gcs_path), id |-> <<>>]

\* upload_pdf lines 194-207 around trigger_indexing: started, or caught and reported
\* in the message of the success response
TriggerIndexingFatal(p) ==
  /\ up[p].pc = "index"
  /\ \/ /\ ix' = [ix EXCEPT !.ops = @ \cup {GcsImport(cfg, up[p].key)}]
        /\ up' = [up EXCEPT ![p].pc = "done",
                            ![p].resp = UploadOk(up[p].key, MsgIndexingStarted)]
        /\ UNCHANGED blobs
     \/ /\ up' = [up EXCEPT ![p].pc = "done", ![p].indexErr = TRUE,
                            ![p].resp = ErrorResp(500, "Interner Serverfehler beim Upload")]
        /\ blobs' = [k \in (DOMAIN blobs) \ {up[p].key} |-> blobs[k]]
        /\ UNCHANGED ix
  /\ UNCHANGED <<cfg, served, an, ex>>

TriggerIndexing(p) ==
  /\ up[p].pc = "index"
  /\ \/ /\ ix' = [ix EXCEPT !.ops = @ \cup {GcsImport(cfg, up[p].key)}]
        /\ up' = [up EXCEPT ![p].pc = "done",
                            ![p].resp = UploadOk(up[p].key, MsgIndexingStarted)]
     \/ /\ up' = [up EXCEPT ![p].pc = "done", ![p].indexErr = TRUE,
                            ![p].resp = UploadOk(up[p].key, MsgIndexingFailed)]
        /\ UNCHANGED ix
  /\ UNCHANGED <<cfg, blobs, served, an, ex>>

----------------------------------------------------------------------------
(* ScopedRetriever: search_document_content (src/app.py:288-410) *)

\* an entry of extractive_answers / snippets that lacks the 'content' / 'snippet' key
NoKey == "<no key>"

\* One result of a search response: the texts of derived_struct_data, the link ("" when
\* absent or empty) and where reading the result raises, if it does.
ResultShapes ==
  { [answers |-> <<"x">>,   snippets |-> <<>>,      link |-> "",  fault |-> "none"],
    [answers |-> <<>>,      snippets |-> <<"y">>,   link |-> "",  fault |-> "none"],
    [answers |-> <<"x">>,   snippets |-> <<"y">>,   link |-> "x", fault |-> "none"],
    [answers |-> <<>>,      snippets |-> <<>>,      link |-> "L", fault |-> "none"],
    [answers |-> <<>>,      snippets |-> <<>>,      link |-> "",  fault |-> "none"],
    [answers |-> <<NoKey>>, snippets |-> <<NoKey>>, link |-> "",  fault |-> "none"],
    [answers |-> <<"x">>,   snippets |-> <<"y">>,   link |-> "",  fault |-> "start"],
    [answers |-> <<"x">>,   snippets |-> <<"y">>,   link |-> "",  fault |-> "snippets"] }

\* response.results: at most page_size results
Responses == UNION {[1..n -> ResultShapes] : n \in 0..MaxHits}

\* the entries that carry their key, in order
RECURSIVE Keyed(_)
Keyed(entries) ==
  IF entries = <<>> THEN <<>>
  ELSE IF entries[1] = NoKey THEN Keyed(Tail(entries))
       ELSE <<entries[1]>> \o Keyed(Tail(entries))

InSeq(x, seq) == \E i \in 1..Len(seq) : seq[i] = x

\* lines 349-352
WithLink(results, link) ==
  IF link # "" /\ ~InSeq(link, results) THEN Append(results, link) ELSE results

\* lines 328-362: one turn of the strict loop; an exception keeps what was appended
StrictResult(results, r) ==
  IF r.fault = "start" THEN results
  ELSE IF r.fault = "snippets" THEN results \o Keyed(r.answers)
  ELSE WithLink(results \o Keyed(r.answers) \o Keyed(r.snippets), r.link)

RECURSIVE StrictChunks(_, _)
StrictChunks(results, response) ==
  IF response = <<>> THEN results
  ELSE StrictChunks(StrictResult(results, response[1]), Tail(response))

\* lines 378-392: the fallback loop has no handler of its own: a result that raises ends
\* the loop and leaves what was appended before it
RECURSIVE FallbackChunks(_, _)
FallbackChunks(results, response) ==
  IF response = <<>> THEN results
  ELSE IF response[1].fault # "none" THEN results
  ELSE FallbackChunks(results \o Keyed(response[1].snippets), Tail(response))

FallbackRaised(response) == \E i \in 1..Len(response) : response[i].fault # "none"

NeedFallbackAlways(results) == TRUE

\* line 367
NeedFallback(results) == Len(results) = 0

----------------------------------------------------------------------------
(* analyze_script (src/app.py:472-578) *)

NoAnalysis ==
  [status |-> 0, error |-> "", hint |-> FALSE, analysis_result |-> <<>>, chunks_found |-> 0]

AnalyzeError(status, error) ==
  [status |-> status, error |-> error, hint |-> FALSE, analysis_result |-> <<>>,
   chunks_found |-> 0]

\* lines 519-526: the 404 with indexing_info
NotIndexedYet ==
  [status |-> 404, error |-> "Keine Inhalte gefunden", hint |-> TRUE,
   analysis_result |-> <<>>, chunks_found |-> 0]

\* lines 570-574
AnalysisOk(text, n) ==
  [status |-> 200, error |-> "", hint |-> FALSE, analysis_result |-> text, chunks_found |-> n]

IdleAnalyze ==
  [pc |-> "idle", filename |-> <<>>, topic |-> <<>>, calls |-> <<>>,
   strictErr |-> FALSE, fallbackErr |-> FALSE, response |-> <<>>, strictChunks |-> <<>>,
   chunks |-> <<>>, generated |-> FALSE, text |-> <<>>, resp |-> NoAnalysis]

Notes == <<"N", "o", "t", "e", "s">>
StoredNotes == Date1 \o <<"_">> \o Kapitel \o <<"3", "_">> \o Notes \o PdfExt

\* data.get("file_name"): missing, a bare key, or a gs:// path
AnalyzeNames == { <<>>,
                  <<"a", ".", "p", "d", "f">>,
                  GcsUri(GCS_BUCKET_NAME, StoredNotes) }

\* lines 490-492
DisplayName(file_name) ==
  LET last == SplitLast(file_name, "/")
  IN IF EndsWith(last, PdfExt) THEN SubSeq(last, 1, Len(last) - 4) ELSE last

\* lines 497-507: the part after the first part that starts with 'Kapitel', else the name
MainTopic(display_name) ==
  LET parts == Split(display_name, "_")
      hit == {i \in 1..Len(parts) : StartsWith(parts[i], Kapitel)}
      first == IF hit = {} THEN 0 ELSE CHOOSE i \in hit : \A j \in hit : i <= j
      found == IF first > 0 /\ first + 1 <= Len(parts) THEN parts[first + 1] ELSE <<>>
  IN IF found = <<>> THEN display_name ELSE found

\* line 510
ActualFilename(file_name) == SplitLast(file_name, "/")

\* lines 477-517: up to the call of search_document_content
AnalyzeReceive ==
  /\ an.pc = "idle"
  /\ \E hasBody \in BOOLEAN, file_name \in AnalyzeNames :
       an' = IF Misconfigured(cfg)
             THEN [an EXCEPT !.pc = "done", !.resp = AnalyzeError(500, "Server misconfiguration")]
             ELSE IF ~hasBody
             THEN [an EXCEPT !.pc = "done", !.resp = AnalyzeError(500, "Interner Serverfehler")]
             ELSE IF file_name = <<>>
             THEN [an EXCEPT !.pc = "done", !.resp = AnalyzeError(400, "Fehlendes 'file_name'")]
             ELSE [an EXCEPT !.pc = "strict", !.filename = ActualFilename(file_name),
                             !.topic = MainTopic(DisplayName(file_name))]
  /\ UNCHANGED <<cfg, blobs, served, up, ix, ex>>

\* lines 403 / 410 and 517-526: search_document_content returns and analyze_script looks
\* at what it got
Retrieved(a, chunks) ==
  IF chunks = <<>>
  THEN [a EXCEPT !.pc = "done", !.chunks = chunks, !.resp = NotIndexedYet]
  ELSE [a EXCEPT !.pc = "generate", !.chunks = chunks]

\* lines 293-364 and 405-410: client creation and the filtered search; a raise of either
\* reaches the outer handler, which returns []
StrictSearch ==
  /\ an.pc = "strict"
  /\ LET issued == [an EXCEPT !.calls = Append(@, "strict")]
     IN \/ an' = Retrieved([issued EXCEPT !.strictErr = TRUE], <<>>)
        \/ \E response \in Responses :
             LET results == StrictChunks(<<>>, response)
                 done == [issued EXCEPT !.response = response, !.strictChunks = results]
             IN an' = IF NeedFallback(results)
                      THEN [done EXCEPT !.pc = "fallback", !.chunks = results]
                      ELSE Retrieved(done, results)
  /\ UNCHANGED <<cfg, blobs, served, up, ix, ex>>

\* lines 367-403: the unfiltered search inside its own try
FallbackSearch ==
  /\ an.pc = "fallback"
  /\ LET issued == [an EXCEPT !.calls = Append(@, "fallback")]
     IN \/ an' = Retrieved([issued EXCEPT !.fallbackErr = TRUE], an.chunks)
        \/ \E response \in Responses :
             an' = Retrieved([issued EXCEPT !.fallbackErr = FallbackRaised(response)],
                             FallbackChunks(an.chunks, response))
  /\ UNCHANGED <<cfg, blobs, served, up, ix, ex>>

\* response.candidates: the parts of the first candidate, each with its text
GenResponses ==
  { <<>>,
    << <<>> >>,
    << << <<>> >> >>,
    << << <<"A">> >> >>,
    << << <<"A">>, <<"B">> >> >>,
    << << <<>>, <<"B">> >>, << <<"A">> >> >> }

\* lines 561-565
RECURSIVE JoinParts(_)
JoinParts(parts) ==
  IF parts = <<>> THEN <<>> ELSE parts[1] \o JoinParts(Tail(parts))

FullText(candidates) ==
  IF candidates # <<>> THEN JoinParts(candidates[1]) ELSE <<>>

\* lines 552-578: generate_content raises, or the text of the response is returned
Generate ==
  /\ an.pc = "generate"
  /\ \/ an' = [an EXCEPT !.pc = "done", !.resp = AnalyzeError(500, "Interner Serverfehler")]
     \/ \E candidates \in GenResponses :
          an' = [an EXCEPT !.pc = "done", !.generated = TRUE,
                           !.text = FullText(candidates),
                           !.resp = AnalysisOk(FullText(candidates), Len(an.chunks))]
  /\ UNCHANGED <<cfg, blobs, served, up, ix, ex>>

InitAnalyze ==
  /\ cfg \in Configs
  /\ blobs = [k \in {} |-> 0]
  /\ served = 0
  /\ up = [p \in Procs |-> IdleUpload]
  /\ an = IdleAnalyze
  /\ ix = IdleIndex
  /\ ex = IdleExtract

NextAnalyze ==
  \/ AnalyzeReceive
  \/ StrictSearch
  \/ FallbackSearch
  \/ Generate

SpecAnalyze == InitAnalyze /\ [][NextAnalyze]_vars

----------------------------------------------------------------------------
(* Indexer service: index (src/indexer-service/indexer.py:11-97) *)

\* the Pub/Sub envelope of a bucket notification, as far as the handler reads it
Envelopes(store) ==
  {[kind |-> k, bucket |-> <<>>, name |-> <<>>] : k \in {"nomessage", "nodata", "undecodable"}}
    \cup {[kind |-> "event", bucket |-> b, name |-> n] :
            b \in {GCS_BUCKET_NAME, <<>>}, n \in store \cup {<<>>}}

\* lines 67-88: the inline document with the digest of the object name as its id
InlineImport(c, bucket, name) ==
  [parent |-> IndexerBranchParent(c), source |-> "inline",
   uri |-> GcsUri(bucket, name), id |-> HexDigest(name)]

\* the service takes an import only under a well-formed branch name
ImportAccepted(op) == ParseBranch(Segments(op.parent)).ok

IndexerReceive ==
  \E e \in Envelopes(DOMAIN blobs) :
    /\ IF e.kind # "event" \/ e.bucket = <<>> \/ e.name = <<>>
       THEN ix' = [ix EXCEPT !.indexerResp = 400]
       ELSE IF cfg.PROJECT_ID = <<>> \/ cfg.DATA_STORE_ID = <<>>
       THEN ix' = [ix EXCEPT !.indexerResp = 500]
       ELSE LET op == InlineImport(cfg, e.bucket, e.name)
            IN \/ ix' = [ix EXCEPT !.indexerResp = 500]
               \/ /\ ImportAccepted(op)
                  /\ ix' = [ix EXCEPT !.indexerResp = 202, !.ops = @ \cup {op}]
    /\ UNCHANGED <<cfg, blobs, served, up, an, ex>>

\* the document an accepted import leaves in the index: under the id of the request for
\* an inline document, under an id the service derives from the URI for a referenced object
Ingested(op) ==
  [name |-> ParseDocName(op.parent \o Slash \o <<"documents">> \o Slash
                           \o (IF op.source = "inline" THEN op.id ELSE HexDigest(op.uri))),
   uri |-> op.uri,
   requested |-> op.source = "inline"]

\* import_documents runs after the call returned (app.py:455, indexer.py:90); INCREMENTAL
\* replaces the entry of the same name. An import by reference may also ingest nothing.
ServiceIngest ==
  /\ \E op \in ix.ops :
       \/ ix' = [ix EXCEPT !.ops = @ \ {op},
                           !.docs = {d \in @ : d.name # Ingested(op).name} \cup {Ingested(op)}]
       \/ /\ op.source = "gcs"
          /\ ix' = [ix EXCEPT !.ops = @ \ {op}]
  /\ UNCHANGED <<cfg, blobs, served, up, an, ex>>

----------------------------------------------------------------------------
(* IndexStatusProbe: check_indexing_status (src/app.py:81-115) *)

\* line 94
ProbeDocId(filename) == Replace(Replace(filename, <<"/">>, <<"-">>), <<".">>, <<"-">>)

\* lines 91-95
ProbeDocName(c, filename) ==
  DataStorePath(c) \o Slash \o <<"documents">> \o Slash \o ProbeDocId(filename)

\* client.get_document(name=doc_name): the entry of exactly that name, if the name is one
GetDocument(docs, doc_name) ==
  LET n == ParseDocName(doc_name)
  IN n.branch.ok /\ \E d \in docs : d.name = n

ProbeResp(status, indexed, filename, docs, raised) ==
  [status |-> status, indexed |-> indexed, document_id |-> ProbeDocId(filename),
   filename |-> filename,
   ingested |-> \E d \in docs : d.uri = GcsUri(GCS_BUCKET_NAME, filename) /\ d.requested,
   raised |-> raised]

Probe ==
  /\ \E filename \in DOMAIN blobs :
       IF cfg.DATA_STORE_ID = <<>>
       THEN ix' = [ix EXCEPT !.probe = ProbeResp(500, FALSE, filename, ix.docs, TRUE)]
       ELSE \/ ix' = [ix EXCEPT !.probe = ProbeResp(404, FALSE, filename, ix.docs, TRUE)]
            \/ ix' = [ix EXCEPT !.probe =
                        IF GetDocument(ix.docs, ProbeDocName(cfg, filename))
                        THEN ProbeResp(200, TRUE, filename, ix.docs, FALSE)
                        ELSE ProbeResp(404, FALSE, filename, ix.docs, FALSE)]
  /\ UNCHANGED <<cfg, blobs, served, up, an, ex>>

\* the upload of a.pdf into an empty bucket, written and about to request indexing
JustWritten ==
  [IdleUpload EXCEPT !.pc = "index", !.ts = Date1, !.name = <<"a">>, !.probes = <<0>>,
                     !.key = BaseFilename(Date1, <<"a">>), !.path = "base", !.written = TRUE]

InitIndex ==
  /\ cfg \in IndexConfigs
  /\ blobs = Put([k \in {} |-> 0], BaseFilename(Date1, <<"a">>),
                 IF Misconfigured(cfg) THEN 0 ELSE Handler)
  /\ served = IF Misconfigured(cfg) THEN 0 ELSE 1
  /\ up = [p \in Procs |-> IF p = Handler /\ ~Misconfigured(cfg) THEN JustWritten
                           ELSE IdleUpload]
  /\ an = IdleAnalyze
  /\ ix = IdleIndex
  /\ ex = IdleExtract

NextIndex ==
  \/ TriggerIndexing(Handler)
  \/ IndexerReceive
  \/ ServiceIngest
  \/ Probe

SpecIndex == InitIndex /\ [][NextIndex]_vars

----------------------------------------------------------------------------
(* The upload specification *)

InitBlobs == {[k \in S |-> 0] : S \in SUBSET PreKeys}

Init ==
  /\ cfg \in Configs
  /\ blobs \in InitBlobs
  /\ served = 0
  /\ up = [p \in Procs |-> IdleUpload]
  /\ an = IdleAnalyze
  /\ ix = IdleIndex
  /\ ex = IdleExtract

Next ==
  \/ UploadReceive(Handler)
  \/ GenProbeBase(Handler)
  \/ GenProbeCounter(Handler)
  \/ StoreWrite(Handler)
  \/ TriggerIndexing(Handler)

Spec == Init /\ [][Next]_vars

----------------------------------------------------------------------------
(* The concurrent upload specification: the server handles the requests in threads, so
   the steps of different uploads interleave at every storage call. Every upload has
   passed the checks of its request and is about to call generate_unique_filename. *)

Deployed == [PROJECT_ID |-> ProjectSet, DATA_STORE_ID |-> DsShort, DATA_STORE_LOCATION |-> Global]

\* the bucket before the uploads: empty, or holding the base name of a.pdf
ConcBlobs == {[k \in S |-> 0] : S \in {{}, {BaseFilename(Date1, <<"a">>)}}}

\* the files uploaded at the same time, all on the same date
ConcFiles == { <<"a", ".", "p", "d", "f">>, <<"a", "(", "1", ")", ".", "p", "d", "f">> }

Accepted(fname, store) ==
  UploadValidate(IdleUpload, Deployed, TRUE, fname, "application/pdf", 1, Date1, store)

InitConc ==
  /\ cfg = Deployed
  /\ blobs \in ConcBlobs
  /\ served = NumUploads
  /\ up \in [Procs -> {Accepted(fname, DOMAIN blobs) : fname \in ConcFiles}]
  /\ an = IdleAnalyze
  /\ ix = IdleIndex
  /\ ex = IdleExtract

NextConc ==
  \E p \in Procs :
    \/ GenProbeBase(p)
    \/ GenProbeCounter(p)
    \/ StoreWrite(p)
    \/ TriggerIndexing(p)

SpecConc == InitConc /\ [][NextConc]_vars

----------------------------------------------------------------------------
(* The allocator specification: one call of generate_unique_filename for every name and
   bucket content of the bounds. The calling thread keeps running, so a step of the
   call that can be taken is taken. *)

TermFiles == { <<"a", ".", "p", "d", "f">>,
               <<"a", "(", "1", ")", ".", "p", "d", "f">>,
               <<"a", "_", "b", ".", "p", "d", "f">> }

\* bucket contents that hold names of all three files
TermKeys == PreKeys \cup {CounterFilename(Date1, <<"a", "(", "1", ")">>, FirstCounter),
                          BaseFilename(Date1, <<"a", "_", "b">>)}

InitTerm ==
  /\ cfg = Deployed
  /\ blobs \in {[k \in S |-> 0] : S \in SUBSET TermKeys}
  /\ served = 1
  /\ \E fname \in TermFiles :
       up = [p \in Procs |-> IF p = Handler THEN Accepted(fname, DOMAIN blobs) ELSE IdleUpload]
  /\ an = IdleAnalyze
  /\ ix = IdleIndex
  /\ ex = IdleExtract

NextTerm ==
  \/ GenProbeBase(Handler)
  \/ GenProbeCounter(Handler)

SpecTerm ==
  /\ InitTerm
  /\ [][NextTerm]_vars
  /\ WF_vars(GenProbeBase(Handler))
  /\ WF_vars(GenProbeCounter(Handler))

----------------------------------------------------------------------------
(* The extractor specification: the function applied to every input of the bounds *)

InitExtract ==
  /\ cfg \in Configs
  /\ blobs = [k \in {} |-> 0]
  /\ served = 0
  /\ up = [p \in Procs |-> IdleUpload]
  /\ an = IdleAnalyze
  /\ ix = IdleIndex
  /\ \E f \in ExtractInputs : ex = [IdleExtract EXCEPT !.pc = "call", !.filename = f]

NextExtract == Extract

SpecExtract == InitExtract /\ [][NextExtract]_vars

----------------------------------------------------------------------------
(* Properties of the upload specification *)

Pdf == <<".", "p", "d", "f">>
Allocated(u) == u.path # "none"

\* C1: the key generate_unique_filename returns is not a key of the bucket at the time of
\* the call, whichever return is taken (base name, counter name, epoch fallback).
C1_ReturnedKeyUnusedAtCall ==
  \A p \in Procs : Allocated(up[p]) => up[p].key \notin up[p].atCall

\* C2: with every existence check answered, the result is "{date}_{name}.pdf" when that key
\* is absent, and otherwise "{date}_{name}(k).pdf" for the smallest k >= 1 whose key is
\* absent, after probing the base name and then k = 1, 2, ... with no value left out or
\* used twice.
C2_SmallestUnusedCounter ==
  \A p \in Procs :
    LET u == up[p]
        stem == u.ts \o <<"_">> \o u.name
        numbered(k) == stem \o <<"(">> \o Dec(k) \o <<")">> \o Pdf
    IN /\ u.pc = "probe" =>
            /\ u.counter >= 1
            /\ u.probes = [i \in 1..u.counter |-> i - 1]
            /\ stem \o Pdf \in DOMAIN blobs
            /\ \A j \in 1..(u.counter - 1) : numbered(j) \in DOMAIN blobs
       /\ u.path = "base" =>
            /\ u.key = stem \o Pdf
            /\ u.key \notin u.atRet
            /\ u.probes = <<0>>
       /\ u.path = "counter" =>
            /\ u.counter >= 1
            /\ u.key = numbered(u.counter)
            /\ u.key \notin u.atRet
            /\ stem \o Pdf \in u.atRet
            /\ \A j \in 1..(u.counter - 1) : numbered(j) \in u.atRet
            /\ u.probes = [i \in 1..(u.counter + 1) |-> i - 1]

\* a counter name was returned past a gap-free run of at least one taken counter name
C2_Witness ==
  \E p \in Procs : up[p].path = "counter" /\ up[p].counter >= 2

\* C3: when the client creation or an existence check raises, at the base probe or at a
\* counter probe, the caller gets "{date}_{name}_{epoch}.pdf" and goes on to the write, and
\* the success response says nothing of the failure.
C3_DegradedNamingAbsorbed ==
  \A p \in Procs :
    LET u == up[p]
    IN u.raisedAt # "none" =>
         /\ u.path = "epoch"
         /\ \E e \in Epochs : u.key = u.ts \o <<"_">> \o u.name \o <<"_">> \o Dec(e) \o Pdf
         /\ u.pc \in {"write", "index", "done"}
         /\ u.pc = "done" /\ u.written =>
              /\ u.resp.status = 200
              /\ u.resp.success
              /\ u.resp.filename = u.key
              /\ u.resp.error = ""
              /\ u.resp.message \in {MsgIndexingStarted, MsgIndexingFailed}

\* an upload whose counter probe raised was answered with a success response
C3_Witness ==
  \E p \in Procs :
    /\ up[p].raisedAt = "counter"
    /\ up[p].pc = "done"
    /\ up[p].resp.status = 200

\* C8: when the write succeeded and trigger_indexing raises, the response is the success
\* response (200, success, the stored key) with the failure in its message only, and the
\* stored object is still in the bucket as written.
C8_IndexingFailureIsWarning ==
  \A p \in Procs :
    LET u == up[p]
    IN u.pc = "done" /\ u.indexErr =>
         /\ u.resp.status = 200
         /\ u.resp.success
         /\ u.resp.filename = u.key
         /\ u.resp.message = MsgIndexingFailed
         /\ u.key \in DOMAIN blobs
         /\ blobs[u.key] = p

\* an upload was written and answered after its indexing request raised
C8_Witness ==
  \E p \in Procs :
    /\ up[p].pc = "done"
    /\ up[p].indexErr
    /\ up[p].written
    /\ up[p].key \in DOMAIN blobs

----------------------------------------------------------------------------
(* Properties of the analyze specification *)

RetrieveReturned == an.pc \in {"generate", "done"} /\ an.calls # <<>>

\* C4: a transport error of the filtered search does not prevent the fallback tier: after
\* it the unfiltered search is still issued.
C4_FallbackAfterStrictError ==
  RetrieveReturned /\ an.strictErr => InSeq("fallback", an.calls)

\* C5: a search call that failed with a transport error is never answered like two tiers
\* that ran and found nothing: the 404 with the indexing-delay hint is kept for the latter.
C5_TransportErrorDistinguished ==
  an.pc = "done" /\ (an.strictErr \/ an.fallbackErr) => an.resp # NotIndexedYet

\* C6: the filtered search is issued first; the unfiltered one at most once and only after
\* the filtered one yielded no chunk; when the filtered one yields a chunk there is no
\* fallback search and its chunks are what is returned.
C6_StrictBeforeFallback ==
  /\ an.calls \in {<<>>, <<"strict">>, <<"strict", "fallback">>}
  /\ InSeq("fallback", an.calls) => an.strictChunks = <<>> /\ ~an.strictErr
  /\ RetrieveReturned /\ an.strictChunks # <<>> =>
       /\ an.calls = <<"strict">>
       /\ an.chunks = an.strictChunks

\* the filtered search found chunks and they went on to generation
C6_Witness ==
  /\ an.pc = "generate"
  /\ Len(an.strictChunks) >= 2
  /\ an.calls = <<"strict">>

\* C7: with at least one chunk retrieved and an empty text generated, the answer is not a
\* success with an empty analysis_result but a not-found (404) one.
C7_EmptyGenerationNotSuccess ==
  an.pc = "done" /\ an.chunks # <<>> /\ an.generated /\ an.text = <<>> =>
    an.resp.status = 404

----------------------------------------------------------------------------
(* Properties of the index specification *)

\* C9: a status probe answered before the index holds the uploaded document reports it as
\* not indexed, and every probe answered once the index holds it under the id of the
\* ingestion request reports it as indexed.
C9_ProbeFollowsIngestion ==
  ix.probe.status # 0 /\ ~ix.probe.raised =>
    /\ ~ix.probe.ingested => ~ix.probe.indexed
    /\ ix.probe.ingested => ix.probe.indexed /\ ix.probe.status = 200

----------------------------------------------------------------------------
(* Properties of the extractor specification *)

\* the key without '.pdf' is one token and that token starts with no chapter marker in
\* any letter case
SingleTokenNoChapter(filename) ==
  LET parts == Split(Replace(filename, Pdf, <<>>), "_")
  IN /\ Len(parts) = 1
     /\ ~StartsWith(Lower(parts[1]), <<"k", "a", "p", "i", "t", "e", "l">>)

TheToken(filename) == Replace(filename, Pdf, <<>>)

\* C10 as stated: extract("randomfile.pdf") has topic "randomfile" and the other fields
\* empty; a key of a single token without chapter marker gets the token as its topic and
\* empty date, chapter and version.
C10_SingleTokenTopicIsName ==
  ex.pc = "done" /\ SingleTokenNoChapter(ex.filename) =>
    /\ ex.metadata.topic = TheToken(ex.filename)
    /\ ex.metadata.date = <<>>
    /\ ex.metadata.chapter = <<>>
    /\ ex.metadata.version = <<>>

\* C10 as amended: extract("randomfile.pdf") has every field empty; a key of a single token
\* without chapter marker gets an empty topic and an empty chapter, and its date (version)
\* is empty unless the token itself starts like a date (a version), and is the token then.
C10_SingleTokenTopicEmpty ==
  ex.pc = "done" /\ SingleTokenNoChapter(ex.filename) =>
    LET tok == TheToken(ex.filename)
        m == ex.metadata
    IN /\ m.filename = ex.filename
       /\ m.topic = <<>>
       /\ m.chapter = <<>>
       /\ m.date \in {<<>>, tok}
       /\ m.date # <<>> => IsDigit(tok[1])
       /\ m.version \in {<<>>, tok}
       /\ m.version # <<>> => tok[1] \in {"v", "V"}
       /\ tok = RandomFile => m.date = <<>> /\ m.version = <<>>

\* extract("randomfile.pdf") has returned
C10_Witness ==
  /\ ex.pc = "done"
  /\ ex.filename = RandomFile \o Pdf

\* the first part that starts with the chapter marker in any letter case, 0 without one
AnyCaseChapterIndex(parts) ==
  LET hit == {i \in 1..Len(parts) : StartsWith(Lower(parts[i]), <<"k", "a", "p", "i", "t", "e", "l">>)}
  IN IF hit = {} THEN 0 ELSE CHOOSE i \in hit : \A j \in hit : i <= j

\* C11: when a token starts with the chapter marker in any letter case, chapter is the
\* first such token and topic the token right after it, empty when it is the last token;
\* the second token becomes the topic only when no chapter token was found and there is
\* more than one token.
C11_ChapterAndTopicRule ==
  ex.pc = "done" =>
    LET parts == Split(Replace(ex.filename, Pdf, <<>>), "_")
        i == AnyCaseChapterIndex(parts)
        m == ex.metadata
    IN IF i > 0
       THEN /\ m.chapter = parts[i]
            /\ m.topic = IF i < Len(parts) THEN parts[i + 1] ELSE <<>>
       ELSE /\ m.chapter = <<>>
            /\ m.topic = IF Len(parts) > 1 THEN parts[2] ELSE <<>>

\* C12: every indexing request for a document key carries the same derived document
\* identifier (a hash of the key), on both paths that request indexing, and the index
\* holds at most one entry for a key after the requests were ingested.
C12_SameDerivedIdOnEveryPath ==
  /\ \A o \in ix.ops :
       /\ Len(o.id) = HexDigestLen
       /\ \A o2 \in ix.ops : o2.uri = o.uri => o2.id = o.id
  /\ \A d1 \in ix.docs : \A d2 \in ix.docs : d1.uri = d2.uri => d1 = d2

\* what one result contributes by priority: its extractive answers, otherwise its
\* snippets, otherwise its link
PriorityContribution(r) ==
  IF Keyed(r.answers) # <<>> THEN Keyed(r.answers)
  ELSE IF Keyed(r.snippets) # <<>> THEN Keyed(r.snippets)
  ELSE IF r.link # "" THEN <<r.link>>
  ELSE <<>>

RECURSIVE PriorityChunks(_)
PriorityChunks(response) ==
  IF response = <<>> THEN <<>>
  ELSE PriorityContribution(response[1]) \o PriorityChunks(Tail(response))

\* C13: the strict tier takes from each result its extractive answers if present,
\* otherwise its snippets, otherwise its link; the chunks keep the result order and none
\* is dropped because an equal string is already in the output.
C13_StrictTierPriority ==
  (/\ "strict" \in {an.calls[i] : i \in 1..Len(an.calls)}
   /\ ~an.strictErr
   /\ \A i \in 1..Len(an.response) : an.response[i].fault = "none")
    => an.strictChunks = PriorityChunks(an.response)

\* C14: in every interleaving of concurrent uploads, each upload's write goes to a key
\* that is unused at the moment of the write, so no stored document is overwritten; stated
\* for the uploads whose key came from a probe that found it unused.
C14_WriteToUnusedKey ==
  [][\A p \in Procs :
       (up[p].pc = "write" /\ up'[p].pc = "index" /\ up[p].path # "epoch")
         => up[p].key \notin DOMAIN blobs]_vars

\* C15: for every original name, also one with '_' or a parenthesized counter, and every
\* finite bucket content, generate_unique_filename returns: a call never makes more
\* probes than the bucket held keys at the call plus one, and a running call leads to
\* its return.
C15_AllocatorReturns ==
  /\ [](Len(up[Handler].probes) <= Cardinality(up[Handler].atCall) + 1)
  /\ (up[Handler].pc \in {"alloc", "probe"}) ~> (up[Handler].pc = "write")

\* the call for a(1).pdf returned from the loop after probing a(1)(1) and a(1)(2)
C15_Witness ==
  /\ up[Handler].pc = "write"
  /\ up[Handler].name = <<"a", "(", "1", ")">>
  /\ up[Handler].path = "counter"
  /\ up[Handler].probes = <<0, 1, 2>>

====
